---- MODULE Spec2Model ----
(***************************************************************************)
(* Work-coordination layer of the AI Employee vault:                       *)
(*   - the claim-by-move protocol (Agents/claim_manager.py),               *)
(*   - the process supervisor     (Agents/orchestrator.py),                *)
(*   - the approval gate          (Agents/hitl_approval.py).               *)
(*                                                                         *)
(* The queue store is a directory tree on one volume.  A task file is      *)
(* modelled with an identity (so that an overwritten file is seen to be    *)
(* lost), the directory and name it sits under, and its st_mtime.          *)
(* shutil.move of a file onto a file path is os.rename: it is atomic, it   *)
(* keeps st_mtime, it silently replaces an existing destination file, and  *)
(* it raises when the source is gone.                                      *)
(*                                                                         *)
(* Time is counted in hours, the unit of max_age_hours.                    *)
(***************************************************************************)
EXTENDS Integers, FiniteSets, Sequences, TLC

\* ------------------------------------------------------------------ bounds
NumTasks == 2
MaxTime == 2
MaxAgeArg == 1
MaxChecks == 7

\* ------------------------------------------------------- program constants
MAX_RESTARTS == 5

\* the first two records of AGENTS_MINIMAL, in list order
AGENTS == <<"inbox_watcher", "task_router">>
NumAgents == Len(AGENTS)
Agents == 1..NumAgents

\* ------------------------------------------------------------- queue store
Workers == {"cloud_agent", "local_agent"}
Names == {"a.md", "b.md"}
Tasks == 1..NumTasks

NEEDS_ACTION_DIR == "Needs_Action"
NEEDS_ACTION_EMAIL == "Needs_Action/email"
APPROVED_DIR == "Approved"
DONE_DIR == "Done"

claim_dir(w) == IF w = "cloud_agent" THEN "In_Progress/cloud_agent" ELSE "In_Progress/local_agent"

ScratchDirs == {claim_dir(w) : w \in Workers}
\* queues a producer (watcher, human approver) drops tasks into
ProducerQueues == {NEEDS_ACTION_EMAIL, APPROVED_DIR}
\* source paths handed to claim(): cloud_agent.py:288-293, local_agent.py:120-146
SourceQueues == {NEEDS_ACTION_DIR, NEEDS_ACTION_EMAIL, APPROVED_DIR}
\* destinations handed to release(): Done, or back to the queue of origin
ReleaseDests == {DONE_DIR, NEEDS_ACTION_EMAIL, APPROVED_DIR}
\* source_dir handed to abandon_stale(): cloud_agent.py:365, local_agent.py:255
FallbackQueues == {NEEDS_ACTION_DIR, APPROVED_DIR}

NOWHERE == "nowhere"
DESTROYED == "destroyed"
None == "None"
PENDING == "-"
OWNED == "path"
RAISED == "raised"

VARIABLES
  fs,         \* [Tasks -> [dir, name, mtime]] : the files of the queue store
  now,        \* wall clock, hours
  pc,         \* [Workers -> position of the worker inside a ClaimManager call]
  arg,        \* [Workers -> arguments / locals of the call in progress]
  todo,       \* [Workers -> entries still to visit by the loop in progress]
  ret,        \* [Workers -> result of the last call (count for abandon_stale)]
  claimedAt,  \* [Tasks -> time of the claim-move of a task now claimed] (history)
  target,     \* the path both workers are asked to claim in the race scenario
  agents,     \* [Agents -> AgentProcess record]
  opc,        \* position of Orchestrator.run
  idx,        \* loop index of start_all / health_check
  checks,     \* completed health_check passes (bounded by MaxChecks)
  gate,       \* position, locals and summary of hitl_approval.check_approved
  content,    \* [Tasks -> the lines of the task file]
  DRY_RUN,    \* config.DRY_RUN, fixed when the process starts
  alog,       \* the day's audit log file and the log_action calls in progress
  wp          \* [Workers -> position and locals of the worker's run_once pass]

qvars == <<fs, now, pc, arg, todo, ret, claimedAt, target>>
svars == <<agents, opc, idx, checks>>
gvars == <<gate, content, DRY_RUN>>
xvars == <<alog, wp>>
vars == <<fs, now, pc, arg, todo, ret, claimedAt, target, agents, opc, idx, checks,
          gate, content, DRY_RUN, alog, wp>>

NoFile == [dir |-> NOWHERE, name |-> "-", mtime |-> 0]
NoArg == [dir |-> "-", name |-> "-", age |-> 0, t0 |-> 0]
NoTarget == [dir |-> "-", name |-> "-", claimed |-> FALSE]

\* the tasks found at path d/n in file system f (at most one)
At(f, d, n) == {t \in Tasks : f[t].dir = d /\ f[t].name = n}

exists(f, d, n) == At(f, d, n) # {}

Live(f, t) == f[t].dir \notin {NOWHERE, DESTROYED}

\* os.rename(src, dst) of file t onto path d/n: an existing d/n is replaced
rename(f, t, d, n) ==
  [u \in Tasks |->
     IF u = t THEN [f[u] EXCEPT !.dir = d, !.name = n]
     ELSE IF f[u].dir = d /\ f[u].name = n THEN [f[u] EXCEPT !.dir = DESTROYED]
     ELSE f[u]]

\* a move that reports success and leaves the file where it was
shutil_move_in_place(f, sd, sn, dd, dn) ==
  IF At(f, sd, sn) = {} THEN [ok |-> FALSE, fs |-> f]
  ELSE [ok |-> TRUE, fs |-> f]

\* shutil.move(src, dst): rename when the source exists, OSError otherwise
shutil_move(f, sd, sn, dd, dn) ==
  IF At(f, sd, sn) = {} THEN [ok |-> FALSE, fs |-> f]
  ELSE LET t == CHOOSE x \in At(f, sd, sn) : TRUE
       IN [ok |-> TRUE, fs |-> rename(f, t, dd, dn)]

\* ClaimManager.is_claimed_by_anyone, evaluated on one file-system state
is_claimed_by_anyone(f, n) == \E w \in Workers : exists(f, claim_dir(w), n)

\* ClaimManager.list_claimed: the names in the worker's scratch queue
list_claimed(f, w) == {n \in Names : exists(f, claim_dir(w), n)}

Scratch(f, w) == {t \in Tasks : f[t].dir = claim_dir(w)}

\* history: the hour a task entered the scratch queue it is in (0 when unclaimed)
Stamp(f, g) ==
  [t \in Tasks |->
     IF g[t].dir \notin ScratchDirs THEN 0
     ELSE IF f[t].dir = g[t].dir THEN claimedAt[t]
     ELSE now]

\* -------------------------------------------------------------- environment
\* a producer drops a new task file into a stage queue under a free name
NewTask(q, n) ==
  /\ \E t \in Tasks : fs[t].dir = NOWHERE
  /\ ~exists(fs, q, n)
  /\ LET t == CHOOSE x \in Tasks :
                /\ fs[x].dir = NOWHERE
                /\ \A y \in Tasks : fs[y].dir = NOWHERE => x <= y
     IN fs' = [fs EXCEPT ![t] = [dir |-> q, name |-> n, mtime |-> now]]
  /\ UNCHANGED <<now, pc, arg, todo, ret, claimedAt, target, svars, gvars, xvars>>

Tick ==
  /\ now < MaxTime
  /\ now' = now + 1
  /\ UNCHANGED <<fs, pc, arg, todo, ret, claimedAt, target, svars, gvars, xvars>>

\* ------------------------------------------------------ ClaimManager.claim
\* lines 52-58: the exists check, then the scan is set up
ClaimStart(w, q, n) ==
  /\ pc[w] = "idle"
  /\ IF ~exists(fs, q, n)
     THEN /\ ret' = [ret EXCEPT ![w] = None]
          /\ UNCHANGED <<pc, arg, todo>>
     ELSE /\ pc' = [pc EXCEPT ![w] = "scan"]
          /\ arg' = [arg EXCEPT ![w] = [NoArg EXCEPT !.dir = q, !.name = n]]
          /\ todo' = [todo EXCEPT ![w] = ScratchDirs]
          /\ ret' = [ret EXCEPT ![w] = PENDING]
  /\ UNCHANGED <<fs, now, claimedAt, target, svars, gvars, xvars>>

\* a scan that does not look for the name: every directory passes
ClaimScan_blind(w, d) ==
  /\ pc[w] = "scan"
  /\ d \in todo[w]
  /\ todo' = [todo EXCEPT ![w] = todo[w] \ {d}]
  /\ pc' = [pc EXCEPT ![w] = IF todo[w] = {d} THEN "move" ELSE "scan"]
  /\ UNCHANGED <<arg, ret>>
  /\ UNCHANGED <<fs, now, claimedAt, target, svars, gvars, xvars>>

\* lines 42-45, 58-59: one iteration of the scan over In_Progress/*
ClaimScan(w, d) ==
  /\ pc[w] = "scan"
  /\ d \in todo[w]
  /\ IF exists(fs, d, arg[w].name)
     THEN /\ pc' = [pc EXCEPT ![w] = "idle"]
          /\ arg' = [arg EXCEPT ![w] = NoArg]
          /\ todo' = [todo EXCEPT ![w] = {}]
          /\ ret' = [ret EXCEPT ![w] = None]
     ELSE /\ todo' = [todo EXCEPT ![w] = todo[w] \ {d}]
          /\ pc' = [pc EXCEPT ![w] = IF todo[w] = {d} THEN "move" ELSE "scan"]
          /\ UNCHANGED <<arg, ret>>
  /\ UNCHANGED <<fs, now, claimedAt, target, svars, gvars, xvars>>

\* lines 61-70: the move, then the audit entry inside the same try block
ClaimMove(w, logOk) ==
  /\ pc[w] = "move"
  /\ LET m == shutil_move(fs, arg[w].dir, arg[w].name, claim_dir(w), arg[w].name)
     IN /\ fs' = m.fs
        /\ claimedAt' = Stamp(fs, m.fs)
        /\ ret' = [ret EXCEPT ![w] = IF m.ok /\ logOk THEN OWNED ELSE None]
  /\ pc' = [pc EXCEPT ![w] = "idle"]
  /\ arg' = [arg EXCEPT ![w] = NoArg]
  /\ UNCHANGED <<now, todo, target, svars, gvars, xvars>>

\* ---------------------------------------------------- ClaimManager.release
\* lines 76-80: the exists check on the claimed path
ReleaseStart(w, n, d) ==
  /\ pc[w] = "idle"
  /\ IF ~exists(fs, claim_dir(w), n)
     THEN /\ ret' = [ret EXCEPT ![w] = None]
          /\ UNCHANGED <<pc, arg>>
     ELSE /\ pc' = [pc EXCEPT ![w] = "release"]
          /\ arg' = [arg EXCEPT ![w] = [NoArg EXCEPT !.dir = d, !.name = n]]
          /\ ret' = [ret EXCEPT ![w] = PENDING]
  /\ UNCHANGED <<fs, now, todo, claimedAt, target, svars, gvars, xvars>>

\* lines 81-89: the move, then the audit entry inside the same try block
ReleaseMove(w, logOk) ==
  /\ pc[w] = "release"
  /\ LET m == shutil_move(fs, claim_dir(w), arg[w].name, arg[w].dir, arg[w].name)
     IN /\ fs' = m.fs
        /\ claimedAt' = Stamp(fs, m.fs)
        /\ ret' = [ret EXCEPT ![w] = IF m.ok /\ logOk THEN OWNED ELSE None]
  /\ pc' = [pc EXCEPT ![w] = "idle"]
  /\ arg' = [arg EXCEPT ![w] = NoArg]
  /\ UNCHANGED <<now, todo, target, svars, gvars, xvars>>

\* ----------------------------------------------- ClaimManager.abandon_stale
\* the age of a claimed file as line 109 computes it
age_hours(f, t, t0) == t0 - f[t].mtime

\* lines 106-108: count = 0, now is read once, list_claimed() is materialised
AbandonStart(w, d, maxAge) ==
  /\ pc[w] = "idle"
  /\ ret' = [ret EXCEPT ![w] = 0]
  /\ IF list_claimed(fs, w) = {}
     THEN UNCHANGED <<pc, arg, todo>>
     ELSE /\ pc' = [pc EXCEPT ![w] = "abandon"]
          /\ arg' = [arg EXCEPT ![w] = [dir |-> d, name |-> "-", age |-> maxAge, t0 |-> now]]
          /\ todo' = [todo EXCEPT ![w] = list_claimed(fs, w)]
  /\ UNCHANGED <<fs, now, claimedAt, target, svars, gvars, xvars>>

\* lines 108-119: one iteration of the loop over the listed claims
AbandonStep(w, n, logOk) ==
  /\ pc[w] = "abandon"
  /\ n \in todo[w]
  /\ LET here == At(fs, claim_dir(w), n)
         last == todo[w] = {n}
     IN IF here = {}
        THEN \* f.stat() raises FileNotFoundError out of abandon_stale, and
             \* out of run_once and the worker's loop, which catch nothing
             /\ UNCHANGED ret
             /\ pc' = [pc EXCEPT ![w] = RAISED]
             /\ arg' = [arg EXCEPT ![w] = NoArg]
             /\ todo' = [todo EXCEPT ![w] = {}]
             /\ UNCHANGED <<fs, claimedAt>>
        ELSE LET t == CHOOSE x \in here : TRUE
                 stale == age_hours(fs, t, arg[w].t0) > arg[w].age
                 m == shutil_move(fs, claim_dir(w), n, arg[w].dir, n)
             IN /\ fs' = (IF stale THEN m.fs ELSE fs)
                /\ claimedAt' = Stamp(fs, IF stale THEN m.fs ELSE fs)
                /\ ret' = [ret EXCEPT ![w] =
                             IF stale /\ m.ok /\ logOk THEN ret[w] + 1 ELSE ret[w]]
                /\ todo' = [todo EXCEPT ![w] = todo[w] \ {n}]
                /\ pc' = [pc EXCEPT ![w] = IF last THEN "idle" ELSE "abandon"]
                /\ arg' = [arg EXCEPT ![w] = IF last THEN NoArg ELSE arg[w]]
  /\ UNCHANGED <<now, target, svars, gvars, xvars>>

\* A second process of the same role (a --once run beside the loop, or the
\* role on another machine of the shared tree) uses the same scratch queue;
\* here it finishes entry n with release_to_done.
PeerRelease(w, n) ==
  /\ exists(fs, claim_dir(w), n)
  /\ LET m == shutil_move(fs, claim_dir(w), n, DONE_DIR, n)
     IN fs' = m.fs /\ claimedAt' = Stamp(fs, m.fs)
  /\ UNCHANGED <<now, pc, arg, todo, ret, target, svars, gvars, xvars>>

\* ------------------------------------------------------------ approval gate
PENDING_APPROVAL_DIR == "Pending_Approval"

\* the keys of hitl_approval.ACTION_HANDLERS
ACTION_HANDLERS ==
  {"draft_email_reply", "draft_social_post", "deploy_checklist", "request_approval"}

NoLines == <<>>
NoEntry == [target |-> "-", status |-> "-"]
NoSummary == [executed |-> 0, failed |-> 0, dry_run |-> 0]

\* the gate between two passes: nothing listed, no file in hand.
\* calls (handler invocations of the pass), audit (the last entry the pass
\* wrote to the audit log), prev (the task the pass finished last), listed
\* (the length of the listing when the pass took it) and moved (the archive
\* moves of the pass) are history fields, and so are task (the file the pass
\* has in hand, 0 for none) and ran (the files a handler was invoked for
\* since the gate started).
GateAsleep ==
  [pc |-> "sleep", listing |-> <<>>, name |-> "-", action |-> "-",
   success |-> "-", dest |-> "-",
   summary |-> NoSummary, pending |-> 0, calls |-> 0, branch |-> "-", audit |-> NoEntry,
   prev |-> "-", listed |-> 0, moved |-> 0, task |-> 0, ran |-> {}]

\* ------------------------------------------------- audit log, worker passes
\* bound on the log_action calls one process makes
MaxLogCalls == 2

\* the processes that write the audit log
Loggers == {"cloud_agent", "hitl_approval", "orchestrator"}

\* Logs/<date>.json absent or holding es; whole is FALSE while a writer has
\* opened it for writing (truncated) and not yet written
LogFile(es, whole) == [entries |-> es, whole |-> whole]

\* no log file yet, no call in progress.  done (the entries of the calls that
\* have returned) is a history field.
LogIdle ==
  [file |-> LogFile(<<>>, TRUE),
   lpc |-> [p \in Loggers |-> "idle"],
   buf |-> [p \in Loggers |-> <<>>],
   calls |-> [p \in Loggers |-> 0],
   done |-> {}]

\* no task's processing has raised in this pass
NoFailure == [name |-> "-", dir |-> "-"]

\* a worker between two passes: qi is the index of the queue being scanned,
\* listing the entries of it still to visit, name the task being processed;
\* failed (the task whose processing raised last, with the queue it was
\* claimed from) and took (the tasks the pass has moved into the scratch
\* queue) are history fields
PassIdle ==
  [phase |-> "sleep", qi |-> 0, listing |-> {}, name |-> "-", failed |-> NoFailure,
   took |-> {}]

ExtraIdle ==
  /\ alog = LogIdle
  /\ wp = [w \in Workers |-> PassIdle]

GateIdle ==
  /\ ExtraIdle
  /\ gate = GateAsleep
  /\ content = [t \in Tasks |-> NoLines]
  /\ DRY_RUN = TRUE

\* ------------------------------------------------------------ queue system
QInit ==
  /\ GateIdle
  /\ fs = [t \in Tasks |-> NoFile]
  /\ now = 0
  /\ pc = [w \in Workers |-> "idle"]
  /\ arg = [w \in Workers |-> NoArg]
  /\ todo = [w \in Workers |-> {}]
  /\ ret = [w \in Workers |-> PENDING]
  /\ claimedAt = [t \in Tasks |-> 0]
  /\ target = NoTarget

SupIdle ==
  /\ agents = [a \in Agents |->
                 [status |-> "idle", restarts |-> 0, process |-> "none",
                  script |-> TRUE, pending |-> "none", spawns |-> 0, starts |-> 0,
                  seenAlive |-> FALSE,
                  rv |-> "-"]]
  /\ opc = "new"
  /\ idx = 1
  /\ checks = 0

Init == QInit /\ SupIdle

QNext ==
  \/ \E q \in ProducerQueues, n \in Names : NewTask(q, n)
  \/ Tick
  \/ \E w \in Workers, q \in SourceQueues, n \in Names : ClaimStart(w, q, n)
  \/ \E w \in Workers, d \in ScratchDirs : ClaimScan(w, d)
  \/ \E w \in Workers, logOk \in BOOLEAN : ClaimMove(w, logOk)
  \/ \E w \in Workers, n \in Names, d \in ReleaseDests : ReleaseStart(w, n, d)
  \/ \E w \in Workers, logOk \in BOOLEAN : ReleaseMove(w, logOk)
  \/ \E w \in Workers, d \in FallbackQueues, maxAge \in 1..MaxAgeArg : AbandonStart(w, d, maxAge)
  \/ \E w \in Workers, n \in Names, logOk \in BOOLEAN : AbandonStep(w, n, logOk)
  \/ \E w \in Workers, n \in Names : PeerRelease(w, n)

Next == QNext

Spec == Init /\ [][Next]_vars

\* ------------------------------------------------- the claim race scenario
\* One task file lies at the path `target`; each worker calls claim(target)
\* exactly once.  The other files are wherever earlier activity left them.
RaceFiles ==
  {f \in [Tasks -> {NoFile} \cup [dir : SourceQueues \cup ScratchDirs, name : Names, mtime : {0}]] :
     \A t, u \in Tasks :
        (t # u /\ f[t].dir # NOWHERE /\ f[t].dir = f[u].dir) => f[t].name # f[u].name}

RaceInit ==
  /\ fs \in RaceFiles
  /\ \E q \in SourceQueues, n \in Names :
        /\ exists(fs, q, n)
        /\ target = [dir |-> q, name |-> n, claimed |-> is_claimed_by_anyone(fs, n)]
  /\ now = 0
  /\ pc = [w \in Workers |-> "idle"]
  /\ arg = [w \in Workers |-> NoArg]
  /\ todo = [w \in Workers |-> {}]
  /\ ret = [w \in Workers |-> PENDING]
  /\ claimedAt = [t \in Tasks |-> 0]
  /\ GateIdle
  /\ SupIdle

RaceClaimStart(w) ==
  /\ ret[w] = PENDING
  /\ ClaimStart(w, target.dir, target.name)

RaceNext ==
  \/ \E w \in Workers : RaceClaimStart(w)
  \/ \E w \in Workers, d \in ScratchDirs : ClaimScan(w, d)
  \/ \E w \in Workers, logOk \in BOOLEAN : ClaimMove(w, logOk)

RaceSpec == RaceInit /\ [][RaceNext]_vars

BothReturned == \A w \in Workers : pc[w] = "idle" /\ ret[w] # PENDING

\* the scratch queues holding an entry named n
Holders(f, n) == {w \in Workers : exists(f, claim_dir(w), n)}

\* no scratch queue held an entry of the target's name when the race began
TargetUnclaimed == ~target.claimed

\* C1: two workers that run claim(T) concurrently on one task T: at most one
\* call returns a path, and a call that returns None leaves the caller's
\* scratch queue exactly as it was.
C1_MutualExclusion ==
  /\ [](~(\A w \in Workers : ret[w] = OWNED))
  /\ [][\A w \in Workers :
          (pc[w] # "idle" /\ ret'[w] = None) => Scratch(fs', w) = Scratch(fs, w)]_vars

\* C3: after cloud and local each attempted claim(beta.md) once,
\* exactly one of In_Progress/cloud/beta.md, In_Progress/local/beta.md exists
\* and the source queue no longer holds beta.md.
C3_ExactlyOne_Original ==
  BothReturned =>
    /\ Cardinality(Holders(fs, target.name)) = 1
    /\ ~exists(fs, target.dir, target.name)

\* C3, with a precondition: the same, provided no scratch queue held an entry
\* named beta.md when the two calls began.
C3_ExactlyOne ==
  (BothReturned /\ TargetUnclaimed) =>
    /\ Cardinality(Holders(fs, target.name)) = 1
    /\ ~exists(fs, target.dir, target.name)

C3_Witness ==
  /\ BothReturned
  /\ TargetUnclaimed
  /\ \E w \in Workers : ret[w] = OWNED
  /\ \E w \in Workers : ret[w] = None

\* --------------------------------------------------- claim protocol claims
\* C2: at most one scratch queue holds an entry of a given name.
C2_OneHolderPerName ==
  \A n \in Names : Cardinality(Holders(fs, n)) <= 1

\* C4: conservation: a task present in exactly one queue before a step is
\* present in exactly one queue after it.
C4_Conservation ==
  [][\A t \in Tasks : Live(fs, t) => Live(fs', t)]_vars

\* C5: a release or an abandon_stale move onto a destination that already
\* holds an entry of that name reports failure and changes nothing.
C5_FailClosed ==
  [][\A w \in Workers :
       /\ (/\ pc[w] = "release" /\ pc'[w] # "release"
           /\ exists(fs, arg[w].dir, arg[w].name))
             => (ret'[w] = None /\ fs' = fs)
       /\ \A n \in Names :
            (/\ pc[w] = "abandon"
             /\ n \in todo[w] /\ n \notin todo'[w]
             /\ exists(fs, arg[w].dir, n))
             => (ret'[w] = ret[w] /\ fs' = fs)]_vars

\* C6: abandon_stale moves a claim untouched for longer than maxAge into the
\* fallback queue, counts it, and the task is then claimable (no scratch
\* queue holds its name).
C6_StaleRecovery ==
  [][\A w \in Workers, t \in Tasks :
       (/\ pc[w] = "abandon"
        /\ fs[t].dir = claim_dir(w)
        /\ fs[t].name \in todo[w] /\ fs[t].name \notin todo'[w]
        /\ arg[w].t0 - claimedAt[t] > arg[w].age)
       => (/\ fs'[t].dir = arg[w].dir
           /\ ret'[w] = ret[w] + 1
           /\ ~is_claimed_by_anyone(fs', fs[t].name))]_vars

\* C7: abandon_stale never moves back a task whose claim was created less
\* than maxAge ago.
C7_ClaimAge ==
  [][\A w \in Workers, t \in Tasks :
       (/\ pc[w] = "abandon"
        /\ fs[t].dir = claim_dir(w)
        /\ fs[t].name \in todo[w] /\ fs[t].name \notin todo'[w]
        /\ fs'[t].dir # claim_dir(w))
       => arg[w].t0 - claimedAt[t] >= arg[w].age]_vars

\* ------------------------------------------------------- process supervisor
\* AgentProcess fields: status, restarts, process (the Popen handle: none, or a
\* child that is alive or dead), script (does AGENTS_DIR / script exist).
\* History fields: spawns (children created by Popen), starts (start() calls),
\* seenAlive (some health check found the child alive), rv (value returned by
\* the last start() / restart() call), pending (a child that Popen has
\* created while start() has not yet stored its handle in self.process).

SpawnOutcomes == {"ok", "popen_raises", "log_raises"}

\* AgentProcess.start; o is what Popen and the log_action call after it do
start(r, o) ==
  IF ~r.script
  THEN [r EXCEPT !.status = "missing", !.starts = @ + 1, !.rv = FALSE]
  ELSE IF o = "popen_raises"
  THEN [r EXCEPT !.status = "failed", !.starts = @ + 1, !.rv = FALSE]
  ELSE IF o = "log_raises"
  THEN [r EXCEPT !.status = "failed", !.process = "alive", !.spawns = @ + 1,
                 !.starts = @ + 1, !.rv = FALSE]
  ELSE [r EXCEPT !.status = "running", !.process = "alive", !.spawns = @ + 1,
                 !.starts = @ + 1, !.rv = TRUE]

\* AgentProcess.is_alive
is_alive(r) == r.process = "alive"

\* AgentProcess.stop: terminate (then kill) a live child, status stopped
stop(r) ==
  [r EXCEPT !.process = IF is_alive(r) THEN "dead" ELSE @, !.status = "stopped"]

\* restart with the ceiling test off by one
restart_late_ceiling(r, o) ==
  IF r.restarts > MAX_RESTARTS
  THEN [r EXCEPT !.status = "abandoned", !.rv = FALSE]
  ELSE start([stop(r) EXCEPT !.restarts = @ + 1], o)

\* restart that forgets to count
restart_uncounted(r, o) ==
  IF r.restarts >= MAX_RESTARTS
  THEN [r EXCEPT !.status = "abandoned", !.rv = FALSE]
  ELSE start(stop(r), o)

\* AgentProcess.restart
restart(r, o) ==
  IF r.restarts >= MAX_RESTARTS
  THEN [r EXCEPT !.status = "abandoned", !.rv = FALSE]
  ELSE start([stop(r) EXCEPT !.restarts = @ + 1], o)

\* a health check that marks the crash and leaves it at that
health_visit_no_restart(r, o) ==
  IF r.status \in {"abandoned", "missing", "idle"} THEN r
  ELSE IF ~is_alive(r) /\ r.status = "running"
  THEN [r EXCEPT !.status = "crashed"]
  ELSE [r EXCEPT !.seenAlive = @ \/ (is_alive(r) /\ r.status = "running")]

\* a health check that restarts every record it finds without a live child
health_visit_any_dead(r, o) ==
  IF r.status = "idle" THEN r
  ELSE IF ~is_alive(r)
  THEN restart([r EXCEPT !.status = "crashed"], o)
  ELSE [r EXCEPT !.seenAlive = @ \/ (is_alive(r) /\ r.status = "running")]

\* a health check that restarts every running record, alive or not
health_visit_all_running(r, o) ==
  IF r.status \in {"abandoned", "missing", "idle"} THEN r
  ELSE IF r.status = "running"
  THEN restart([r EXCEPT !.status = "crashed"], o)
  ELSE r

\* a health check that clears the counter of a record it finds alive
health_visit_reset_on_alive(r, o) ==
  IF r.status \in {"abandoned", "missing", "idle"} THEN r
  ELSE IF ~is_alive(r) /\ r.status = "running"
  THEN restart([r EXCEPT !.status = "crashed"], o)
  ELSE [r EXCEPT !.seenAlive = @ \/ (is_alive(r) /\ r.status = "running"),
                 !.restarts = IF is_alive(r) THEN 0 ELSE @]

\* the body of the loop of Orchestrator.health_check for one record
health_visit(r, o) ==
  IF r.status \in {"abandoned", "missing", "idle"} THEN r
  ELSE IF ~is_alive(r) /\ r.status = "running"
  THEN restart([r EXCEPT !.status = "crashed"], o)
  ELSE [r EXCEPT !.seenAlive = @ \/ (is_alive(r) /\ r.status = "running")]

\* Orchestrator.__init__: every record idle, no child, counter 0
SupInit ==
  /\ agents \in {f \in [Agents -> [status : {"idle"}, restarts : {0}, process : {"none"},
                                   script : BOOLEAN, pending : {"none"},
                                   spawns : {0}, starts : {0},
                                   seenAlive : {FALSE}, rv : {"-"}]] : TRUE}
  /\ opc = "new"
  /\ idx = 1
  /\ checks = 0

\* Orchestrator.start_all: one iteration (run() line 195)
StartAllStep(o) ==
  /\ opc = "new"
  /\ agents' = [agents EXCEPT ![idx] = start(@, o)]
  /\ IF idx = NumAgents
     THEN opc' = "sleep" /\ idx' = 1
     ELSE idx' = idx + 1 /\ UNCHANGED opc
  /\ UNCHANGED <<checks, qvars, gvars, xvars>>

\* run() lines 211-213: the sleep ends and a health check begins
HealthCheckBegin ==
  /\ opc = "sleep"
  /\ checks < MaxChecks
  /\ opc' = "check"
  /\ idx' = 1
  /\ UNCHANGED <<agents, checks, qvars, gvars, xvars>>

\* Orchestrator.health_check: one iteration
HealthCheckStep(o) ==
  /\ opc = "check"
  /\ agents' = [agents EXCEPT ![idx] = health_visit(@, o)]
  /\ IF idx = NumAgents
     THEN opc' = "sleep" /\ idx' = 1 /\ checks' = checks + 1
     ELSE idx' = idx + 1 /\ UNCHANGED <<opc, checks>>
  /\ UNCHANGED <<qvars, gvars, xvars>>

\* the SIGINT handler installed by run(): stop_all, then sys.exit
Shutdown ==
  /\ opc \in {"sleep", "check"}
  /\ agents' = [a \in Agents |-> stop(agents[a])]
  /\ opc' = "exited"
  /\ UNCHANGED <<idx, checks, qvars, gvars, xvars>>

\* SIGINT while start_all runs: no handler yet, KeyboardInterrupt ends run()
Interrupt ==
  /\ opc = "new"
  /\ opc' = "exited"
  /\ UNCHANGED <<agents, idx, checks, qvars, gvars, xvars>>

\* environment: a child process exits on its own
Die(a) ==
  /\ agents[a].process = "alive"
  /\ agents' = [agents EXCEPT ![a].process = "dead"]
  /\ UNCHANGED <<opc, idx, checks, qvars, gvars, xvars>>

\* environment: an agent script disappears from AGENTS_DIR
RemoveScript(a) ==
  /\ agents[a].script
  /\ opc # "exited"
  /\ agents' = [agents EXCEPT ![a].script = FALSE]
  /\ UNCHANGED <<opc, idx, checks, qvars, gvars, xvars>>

SupNext ==
  \/ \E o \in SpawnOutcomes : StartAllStep(o)
  \/ HealthCheckBegin
  \/ \E o \in SpawnOutcomes : HealthCheckStep(o)
  \/ Shutdown
  \/ Interrupt
  \/ \E a \in Agents : Die(a)
  \/ \E a \in Agents : RemoveScript(a)

SupStart == QInit /\ SupInit

SupSpec == SupStart /\ [][SupNext]_vars

\* ------------------------------------------------------- supervisor claims
Min(a, b) == IF a < b THEN a ELSE b

\* the health-check visits record a has had
Visits(a) == checks + (IF opc = "check" /\ idx > a THEN 1 ELSE 0)

\* this step is the health-check visit of record a, and it calls restart()
RestartCalled(a) ==
  /\ opc = "check" /\ idx = a
  /\ (opc' = "sleep" \/ idx' = idx + 1)
  /\ agents[a].status = "running"
  /\ ~is_alive(agents[a])

C9_RestartCounter ==
  /\ [](\A a \in Agents :
         agents[a].restarts >= 0 /\ agents[a].restarts <= MAX_RESTARTS)
  /\ [][\A a \in Agents :
          /\ RestartCalled(a) =>
                IF agents[a].restarts >= MAX_RESTARTS
                THEN /\ agents'[a].status = "abandoned"
                     /\ agents'[a].rv = FALSE
                     /\ agents'[a].spawns = agents[a].spawns
                     /\ agents'[a].starts = agents[a].starts
                     /\ agents'[a].process = agents[a].process
                     /\ agents'[a].restarts = agents[a].restarts
                ELSE /\ agents'[a].restarts = agents[a].restarts + 1
                     /\ agents'[a].starts = agents[a].starts + 1
          /\ ~RestartCalled(a) => agents'[a].restarts = agents[a].restarts]_vars

C9_Witness ==
  \E a \in Agents :
     /\ agents[a].status = "abandoned"
     /\ agents[a].rv = FALSE
     /\ agents[a].restarts = MAX_RESTARTS
     /\ agents[a].starts = MAX_RESTARTS + 1

\* C10: the health-check visit of a record that is running with a dead child
\* calls restart(): afterwards the record is running with a newly spawned
\* child, or abandoned, failed or missing; it is not left as it was found.
C10_CrashResponse ==
  [][\A a \in Agents :
       RestartCalled(a) =>
          /\ agents'[a].status \in {"running", "abandoned", "failed", "missing"}
          /\ (agents'[a].status = "running" =>
                 /\ is_alive(agents'[a])
                 /\ agents'[a].spawns = agents[a].spawns + 1)
          /\ (agents'[a].restarts = agents[a].restarts + 1
                 \/ agents'[a].status = "abandoned")]_vars

C10_Witness ==
  \E a \in Agents :
     /\ agents[a].status = "running"
     /\ is_alive(agents[a])
     /\ agents[a].restarts > 0
     /\ agents[a].spawns = agents[a].restarts + 1

\* this step is the health-check visit of record a
Visited(a) ==
  /\ opc = "check" /\ idx = a
  /\ (opc' = "sleep" \/ idx' = idx + 1)

\* C11: a record in state failed whose restart counter is below MAX_RESTARTS
\* is restarted by the health check that visits it: the counter goes up by one
\* and start() is called again.
C11_FailedRetried ==
  [][\A a \in Agents :
       (Visited(a) /\ agents[a].status = "failed"
                   /\ agents[a].restarts < MAX_RESTARTS) =>
          /\ agents'[a].restarts = agents[a].restarts + 1
          /\ agents'[a].starts = agents[a].starts + 1]_vars

\* C12 as stated: a record that is missing or abandoned keeps that state in
\* every later step of the supervisor, and start() is not called for it.
C12_Terminal_Original ==
  [][\A a \in Agents :
       agents[a].status \in {"missing", "abandoned"} =>
          /\ agents'[a].status = agents[a].status
          /\ agents'[a].starts = agents[a].starts]_vars

\* C12: a record that is missing or abandoned is never started or spawned
\* again, and keeps that state in every step except the stop_all of the
\* shutdown handler, which sets it to stopped as the supervisor exits.
C12_Terminal ==
  [][\A a \in Agents :
       agents[a].status \in {"missing", "abandoned"} =>
          /\ agents'[a].starts = agents[a].starts
          /\ agents'[a].spawns = agents[a].spawns
          /\ agents'[a].restarts = agents[a].restarts
          /\ \/ agents'[a].status = agents[a].status
             \/ opc' = "exited" /\ agents'[a].status = "stopped"]_vars

C12_Witness ==
  /\ opc = "sleep"
  /\ checks >= MAX_RESTARTS + 2
  /\ \E a, b \in Agents :
        /\ agents[a].status = "abandoned"
        /\ agents[b].status = "missing"
        /\ agents[b].starts = 1

\* ------------------------------ the health check, one assignment at a time
\* The SIGINT handler runs between any two statements of the main thread, so
\* the loop body of health_check is split where a signal can separate two
\* assignments: opc is "restart" once status = "crashed" is assigned, "start"
\* once restart() has run stop() and counted, "popen" once Popen has created
\* the child, "log" once the handle and status = "running" are stored.

\* a test that sends every record without a live child to restart()
needs_restart_any_dead(r) == ~is_alive(r)

\* health_check line 173
needs_restart(r) == ~is_alive(r) /\ r.status = "running"

\* the loop of health_check moves to the next record, or run() back to sleep
Advance ==
  IF idx = NumAgents
  THEN opc' = "sleep" /\ idx' = 1 /\ checks' = checks + 1
  ELSE opc' = "check" /\ idx' = idx + 1 /\ UNCHANGED checks

\* health_check lines 171-174
SigVisit ==
  /\ opc = "check"
  /\ LET r == agents[idx]
     IN IF r.status \in {"abandoned", "missing", "idle"}
        THEN UNCHANGED agents /\ Advance
        ELSE IF needs_restart(r)
        THEN /\ agents' = [agents EXCEPT ![idx].status = "crashed"]
             /\ opc' = "restart"
             /\ UNCHANGED <<idx, checks>>
        ELSE /\ agents' = [agents EXCEPT ![idx].seenAlive =
                                @ \/ (is_alive(r) /\ r.status = "running")]
             /\ Advance
  /\ UNCHANGED <<qvars, gvars, xvars>>

\* restart() lines 135-141
SigRestart ==
  /\ opc = "restart"
  /\ LET r == agents[idx]
     IN IF r.restarts >= MAX_RESTARTS
        THEN /\ agents' = [agents EXCEPT ![idx] =
                             [r EXCEPT !.status = "abandoned", !.rv = FALSE]]
             /\ Advance
        ELSE /\ agents' = [agents EXCEPT ![idx] =
                             [stop(r) EXCEPT !.restarts = @ + 1]]
             /\ opc' = "start"
             /\ UNCHANGED <<idx, checks>>
  /\ UNCHANGED <<qvars, gvars, xvars>>

\* start() lines 86-99, up to the return of Popen
SigStart(popenOk) ==
  /\ opc = "start"
  /\ LET r == agents[idx]
     IN IF ~r.script
        THEN /\ agents' = [agents EXCEPT ![idx] =
                  [r EXCEPT !.status = "missing", !.starts = @ + 1, !.rv = FALSE]]
             /\ Advance
        ELSE IF ~popenOk
        THEN /\ agents' = [agents EXCEPT ![idx] =
                  [r EXCEPT !.status = "failed", !.starts = @ + 1, !.rv = FALSE]]
             /\ Advance
        ELSE /\ agents' = [agents EXCEPT ![idx] =
                  [r EXCEPT !.pending = "alive", !.spawns = @ + 1,
                            !.starts = @ + 1]]
             /\ opc' = "popen"
             /\ UNCHANGED <<idx, checks>>
  /\ UNCHANGED <<qvars, gvars, xvars>>

\* start() lines 94 and 100: the handle is stored, status = "running"
SigStore ==
  /\ opc = "popen"
  /\ agents' = [agents EXCEPT ![idx] =
                  [@ EXCEPT !.process = agents[idx].pending, !.pending = "none",
                            !.status = "running"]]
  /\ opc' = "log"
  /\ UNCHANGED <<idx, checks, qvars, gvars, xvars>>

\* start() lines 102-108: the audit write, and the except branch if it raises
SigLog(logOk) ==
  /\ opc = "log"
  /\ agents' = [agents EXCEPT ![idx] =
                  IF logOk THEN [@ EXCEPT !.rv = TRUE]
                  ELSE [@ EXCEPT !.status = "failed", !.rv = FALSE]]
  /\ Advance
  /\ UNCHANGED <<qvars, gvars, xvars>>

\* the SIGINT handler, run wherever the main thread is inside the loop
SigShutdown ==
  /\ opc \in {"sleep", "check", "restart", "start", "popen", "log"}
  /\ agents' = [a \in Agents |-> stop(agents[a])]
  /\ opc' = "exited"
  /\ UNCHANGED <<idx, checks, qvars, gvars, xvars>>

\* environment: a child whose handle is not stored yet exits on its own
DiePending(a) ==
  /\ agents[a].pending = "alive"
  /\ agents' = [agents EXCEPT ![a].pending = "dead"]
  /\ UNCHANGED <<opc, idx, checks, qvars, gvars, xvars>>

SigNext ==
  \/ \E o \in SpawnOutcomes : StartAllStep(o)
  \/ Interrupt
  \/ HealthCheckBegin
  \/ SigVisit
  \/ SigRestart
  \/ \E popenOk \in BOOLEAN : SigStart(popenOk)
  \/ SigStore
  \/ \E logOk \in BOOLEAN : SigLog(logOk)
  \/ SigShutdown
  \/ \E a \in Agents : Die(a)
  \/ \E a \in Agents : DiePending(a)
  \/ \E a \in Agents : RemoveScript(a)

SigSpec == SupStart /\ [][SigNext]_vars

\* C13 as stated: every change of a record's state is idle -> running,
\* running -> crashed / stopped / abandoned / missing / failed, or
\* crashed -> running.
C13_StateMachine_Original ==
  [][\A a \in Agents :
       agents'[a].status # agents[a].status =>
          \/ agents[a].status = "idle" /\ agents'[a].status = "running"
          \/ /\ agents[a].status = "running"
             /\ agents'[a].status \in
                  {"crashed", "stopped", "abandoned", "missing", "failed"}
          \/ agents[a].status = "crashed" /\ agents'[a].status = "running"]_vars

\* C13: every change of a record's state is one of
\*   idle -> running, failed, missing        (start, first launch)
\*   running -> crashed                      (health_check)
\*   running -> failed                       (start, audit write raised)
\*   crashed -> abandoned, stopped           (restart)
\*   stopped -> running, failed, missing     (start, inside restart)
\*   any state but idle -> stopped           (stop, at shutdown)
\* and no other change occurs.
C13_StateMachine ==
  [][\A a \in Agents :
       agents'[a].status # agents[a].status =>
          \/ /\ agents[a].status \in {"idle", "stopped"}
             /\ agents'[a].status \in {"running", "failed", "missing"}
          \/ /\ agents[a].status = "running"
             /\ agents'[a].status \in {"crashed", "failed"}
          \/ /\ agents[a].status = "crashed"
             /\ agents'[a].status \in {"abandoned", "stopped"}
          \/ /\ agents[a].status # "idle"
             /\ agents'[a].status = "stopped"
             /\ opc' = "exited"]_vars

C13_Witness ==
  /\ opc = "log"
  /\ agents[idx].status = "running"
  /\ agents[idx].restarts = 2
  /\ \E b \in Agents : agents[b].status = "missing" /\ agents[b].restarts = 0

\* C14: when the shutdown handler runs inside the health-check loop, the
\* supervisor exits with every record stopped and no child it spawned alive,
\* and nothing is spawned afterwards.
C14_Shutdown ==
  /\ [][(opc \in {"sleep", "check", "restart", "start", "popen", "log"}
          /\ opc' = "exited") =>
           \A a \in Agents :
              /\ agents'[a].status = "stopped"
              /\ agents'[a].process # "alive"
              /\ agents'[a].pending # "alive"]_vars
  /\ [][opc = "exited" =>
           \A a \in Agents : agents'[a].spawns = agents[a].spawns]_vars

\* ------------------------------------------------------------ approval gate
\* A task file is a sequence of lines; a line "key: value" is a record.
Line(k, v) == [key |-> k, val |-> v]

\* the task files of the scenarios: two registered actions, an action the
\* gate has no handler for, and a file without an action line
Contents ==
  { <<Line("action", "draft_email_reply")>>,
    <<Line("action", "request_approval")>>,
    <<Line("title", "x"), Line("action", "send_email")>>,
    <<Line("title", "x")>> }

\* hitl_approval._extract_action_type: the value of the first action line
extract_action_type(c) ==
  IF \E i \in 1..Len(c) : c[i].key = "action"
  THEN c[CHOOSE i \in 1..Len(c) :
            /\ c[i].key = "action"
            /\ \A j \in 1..(i - 1) : c[j].key # "action"].val
  ELSE "unknown"

\* a listing in descending order of the names
sorted_desc(S) == SelectSeq(<<"b.md", "a.md">>, LAMBDA n : n \in S)

\* the order of sorted() on the paths of one directory
NameOrder == <<"a.md", "b.md">>

sorted(S) == SelectSeq(NameOrder, LAMBDA n : n \in S)

\* check_pending: the entries of Pending_Approval
listdir_pending(f) == {n \in Names : exists(f, PENDING_APPROVAL_DIR, n)}

\* sorted(APPROVED_DIR.iterdir()): the entries of the Approved root
listdir_approved(f) == {n \in Names : exists(f, APPROVED_DIR, n)}

\* Path.stem of a task name
stem(n) == CASE n = "a.md" -> "a" [] n = "b.md" -> "b" [] OTHER -> n

\* f"{stem}_{ts}{suffix}" with ts the clock reading
stamped(n, t) == stem(n) \o "_" \o ToString(t) \o ".md"

\* the part of the handler's body a call runs: the three drafting handlers
\* return from their "if DRY_RUN" branch; _handle_request_approval has one
\* body, the one that runs in production
handler_branch(action, dry) ==
  IF action = "request_approval" THEN "live"
  ELSE IF dry THEN "dry_run" ELSE "live"

\* What a handler call can do (gate.success holds the value it returned).  The registered handlers return True; outside
\* dry-run their body is the place of the production call, whose result is
\* reported as True, as False or by raising.
HandlerOutcomes(action, dry) ==
  IF dry \/ action = "request_approval" THEN {"true"}
  ELSE {"true", "false", "raises"}

\* What the audit writes of one step do: all succeed; the first raises and
\* the one in the except branch succeeds; all raise.
LogOutcomes == {"ok", "fail_once", "fail"}

\* the loop of check_approved goes on with the next entry
GateContinue(g) ==
  [g EXCEPT !.pc = "next", !.name = "-", !.action = "-", !.success = "-", !.dest = "-",
            !.prev = g.name, !.task = 0]

\* log_action(..., status="failed"); summary["failed"] += 1
GateFailed(g) ==
  GateContinue([g EXCEPT !.summary.failed = @ + 1,
                         !.audit = [target |-> g.name, status |-> "failed"]])

\* an exception leaves check_approved; nothing in run_once or approval_loop
\* catches it
GateRaised(g) == [g EXCEPT !.pc = "raised"]

\* check_approved lines 136-139: the path the task is archived under
archive_path(f, n, t) == IF exists(f, DONE_DIR, n) THEN stamped(n, t) ELSE n

\* check_approved lines 144-147
count_archived(sm, dry) ==
  IF dry THEN [sm EXCEPT !.dry_run = @ + 1] ELSE [sm EXCEPT !.executed = @ + 1]

\* check_approved lines 98-100: a pass begins with the listing
GateList ==
  /\ gate.pc = "sleep"
  /\ gate' = [GateAsleep EXCEPT !.pc = "next",
                                !.listing = sorted(listdir_approved(fs)),
                                !.listed = Cardinality(listdir_approved(fs)),
                                !.ran = gate.ran,
                                !.pending = gate.pending]
  /\ UNCHANGED <<qvars, svars, content, DRY_RUN, xvars>>

\* lines 100-102: the next entry, skipped unless it is a file; the pass
\* returns when the listing is used up
GateIter ==
  /\ gate.pc = "next"
  /\ IF gate.listing = <<>>
     THEN gate' = [gate EXCEPT !.pc = "count"]
     ELSE LET n == Head(gate.listing)
          IN gate' = [gate EXCEPT !.listing = Tail(@),
                                  !.name = IF exists(fs, APPROVED_DIR, n) THEN n ELSE "-",
                                  !.pc = IF exists(fs, APPROVED_DIR, n) THEN "read" ELSE "next"]
  /\ UNCHANGED <<qvars, svars, content, DRY_RUN, xvars>>

\* lines 104-107: read_text (outside any try) and the handler lookup
GateRead ==
  /\ gate.pc = "read"
  /\ LET here == At(fs, APPROVED_DIR, gate.name)
     IN IF here = {}
        THEN gate' = GateRaised(gate)
        ELSE LET t == CHOOSE x \in here : TRUE
             IN gate' = [gate EXCEPT !.action = extract_action_type(content[t]),
                                     !.task = t,
                                     !.pc = "dispatch"]
  /\ UNCHANGED <<qvars, svars, content, DRY_RUN, xvars>>

\* lines 108-134 and the except branch 149-159: no handler, or the handler
\* call and the audit entry of its result
GateDispatch(h, l) ==
  /\ gate.pc = "dispatch"
  /\ IF gate.action \notin ACTION_HANDLERS
     THEN /\ h = "true"
          /\ l \in {"ok", "fail"}
          /\ gate' = IF l = "ok" THEN GateFailed(gate) ELSE GateRaised(gate)
     ELSE /\ h \in HandlerOutcomes(gate.action, DRY_RUN)
          /\ LET g == [gate EXCEPT !.calls = @ + 1,
                                   !.branch = handler_branch(gate.action, DRY_RUN),
                                   !.ran = @ \cup {gate.task},
                                   !.success = IF h = "raises" THEN "-" ELSE h]
                 status == IF DRY_RUN THEN "dry_run"
                           ELSE IF h = "true" THEN "success" ELSE "failed"
             IN IF h = "raises"
                THEN /\ l \in {"ok", "fail"}
                     /\ gate' = IF l = "ok" THEN GateFailed(g) ELSE GateRaised(g)
                ELSE gate' = CASE l = "ok" ->
                                    [g EXCEPT !.pc = "archive",
                                              !.audit = [target |-> g.name,
                                                         status |-> status]]
                               [] l = "fail_once" -> GateFailed(g)
                               [] OTHER -> GateRaised(g)
  /\ UNCHANGED <<qvars, svars, content, DRY_RUN, xvars>>

\* lines 136-139: the collision test on Done
GateArchive ==
  /\ gate.pc = "archive"
  /\ gate' = [gate EXCEPT !.dest = archive_path(fs, gate.name, now), !.pc = "move"]
  /\ UNCHANGED <<qvars, svars, content, DRY_RUN, xvars>>

\* lines 140-147 and the except branch: the move, then the count
GateMove(l) ==
  /\ gate.pc = "move"
  /\ LET m == shutil_move(fs, APPROVED_DIR, gate.name, DONE_DIR, gate.dest)
     IN /\ fs' = m.fs
        /\ IF m.ok
           THEN /\ l = "ok"
                /\ gate' = GateContinue([gate EXCEPT !.summary =
                                            count_archived(@, DRY_RUN),
                                                      !.moved = @ + 1])
           ELSE /\ l \in {"ok", "fail"}
                /\ gate' = IF l = "ok" THEN GateFailed(gate) ELSE GateRaised(gate)
  /\ UNCHANGED <<now, pc, arg, todo, ret, claimedAt, target, svars, content, DRY_RUN, xvars>>

\* run_once lines 177-182: check_pending, then the pass is over
GateCheckPending ==
  /\ gate.pc = "count"
  /\ gate' = [gate EXCEPT !.pending = Cardinality(listdir_pending(fs)),
                          !.pc = "sleep"]
  /\ UNCHANGED <<qvars, svars, content, DRY_RUN, xvars>>

\* environment: the human reviewer moves a proposal into the Approved root
Approve(t) ==
  /\ fs[t].dir = PENDING_APPROVAL_DIR
  /\ ~exists(fs, APPROVED_DIR, fs[t].name)
  /\ fs' = rename(fs, t, APPROVED_DIR, fs[t].name)
  /\ UNCHANGED <<now, pc, arg, todo, ret, claimedAt, target, svars, gvars, xvars>>

\* the stores the gate scenarios start from: proposals waiting or approved,
\* and earlier archive entries in Done
GateFiles ==
  {f \in [Tasks -> {NoFile} \cup
                   [dir : {PENDING_APPROVAL_DIR, APPROVED_DIR, DONE_DIR},
                    name : Names, mtime : {0}]] :
     \A t, u \in Tasks :
        (t # u /\ f[t] # NoFile /\ f[u] # NoFile) =>
           (f[t].dir # f[u].dir \/ f[t].name # f[u].name)}

GateInit ==
  /\ fs \in GateFiles
  /\ content \in [Tasks -> Contents \cup {NoLines}]
  /\ \A t \in Tasks :
        content[t] = NoLines <=> fs[t].dir \notin {PENDING_APPROVAL_DIR, APPROVED_DIR}
  /\ DRY_RUN \in BOOLEAN
  /\ gate = GateAsleep
  /\ ExtraIdle
  /\ now = 0
  /\ pc = [w \in Workers |-> "idle"]
  /\ arg = [w \in Workers |-> NoArg]
  /\ todo = [w \in Workers |-> {}]
  /\ ret = [w \in Workers |-> PENDING]
  /\ claimedAt = [t \in Tasks |-> 0]
  /\ target = NoTarget
  /\ SupIdle

\* the gate process, the reviewer, and the local worker, which takes tasks
\* from the same Approved root (local_agent.process_approvals lines 140-156)
GateNext ==
  \/ GateList
  \/ GateIter
  \/ GateRead
  \/ \E h \in {"true", "false", "raises"}, l \in LogOutcomes : GateDispatch(h, l)
  \/ GateArchive
  \/ \E l \in LogOutcomes : GateMove(l)
  \/ GateCheckPending
  \/ \E t \in Tasks : Approve(t)
  \/ \E n \in Names : ClaimStart("local_agent", APPROVED_DIR, n)
  \/ \E d \in ScratchDirs : ClaimScan("local_agent", d)
  \/ \E logOk \in BOOLEAN : ClaimMove("local_agent", logOk)
  \/ \E n \in Names : ReleaseStart("local_agent", n, DONE_DIR)
  \/ \E logOk \in BOOLEAN : ReleaseMove("local_agent", logOk)

GateSpec == GateInit /\ [][GateNext]_vars

\* ------------------------------------------------------------- gate claims
\* C15: for a task in Approved whose action has no registered handler, the
\* gate's dispatch step leaves the store and the file as they are, calls no
\* handler, adds exactly 1 to failed and nothing to the other counters, and
\* writes a failed audit entry for the task; so it does on every pass.
C15_UnknownAction ==
  [][(/\ gate.pc = "dispatch"
      /\ gate.action \notin ACTION_HANDLERS
      /\ exists(fs, APPROVED_DIR, gate.name)
      /\ gate' # gate) =>
        /\ fs' = fs
        /\ content' = content
        /\ gate'.calls = gate.calls
        /\ gate'.summary = [gate.summary EXCEPT !.failed = @ + 1]
        /\ gate'.audit = [target |-> gate.name, status |-> "failed"]
        /\ gate'.pc = "next"]_vars

C17_DryRunPass ==
  /\ [][(/\ DRY_RUN
         /\ gate.pc \in {"read", "dispatch"}
         /\ gate.pc = "dispatch" => gate.action \in ACTION_HANDLERS
         /\ gate' # gate) =>
           /\ gate'.pc \in {"dispatch", "archive"}
           /\ gate'.summary = gate.summary]_vars
  /\ [][(DRY_RUN /\ gate.pc = "move" /\ gate' # gate) =>
           /\ \E t \in Tasks :
                /\ fs[t].dir = APPROVED_DIR /\ fs[t].name = gate.name
                /\ fs'[t].dir = DONE_DIR
                /\ fs'[t].name \in {gate.name, stamped(gate.name, now)}
           /\ ~exists(fs', APPROVED_DIR, gate.name)
           /\ gate'.summary = [gate.summary EXCEPT !.dry_run = @ + 1]]_vars

\* C18: no gate step changes a task that is in Pending_Approval, and every
\* handler call of the gate is for a path that is in the Approved queue when
\* the call is made.
C18_ApprovedOnly ==
  /\ [][gate' # gate =>
          \A t \in Tasks :
             fs[t].dir = PENDING_APPROVAL_DIR =>
                fs'[t] = fs[t] /\ content'[t] = content[t]]_vars
  /\ [][gate'.calls = gate.calls + 1 =>
          exists(fs, APPROVED_DIR, gate.name)]_vars

\* C19: no error raised while one task is processed leaves the pass.
C19_Isolation == gate.pc # "raised"

\* C20: claim, release and abandon_stale never raise to their caller.
C20_NeverRaise == \A w \in Workers : pc[w] # RAISED

\* C21: a task leaves the Approved queue only in the archive move of the
\* gate's check_approved, which takes it to Done; no other component removes
\* a task from Approved.
C21_OnlyGateArchives ==
  [][\A t \in Tasks :
       (fs[t].dir = APPROVED_DIR /\ fs'[t].dir # APPROVED_DIR) =>
          /\ gate.pc = "move" /\ gate' # gate
          /\ fs[t].name = gate.name
          /\ fs'[t].dir = DONE_DIR]_vars

\* --------------------------------------------------------------- audit log
\* action_logger.log_action is _load_log, append, write_text, with no lock.
\* An entry is <<process, number of the call>>.

\* _load_log: the parsed entries, or [] when the file does not parse
load_log(f) == IF f.whole THEN f.entries ELSE <<>>

\* log_action lines 65-80: the entry is built, the file is loaded, the entry
\* is appended to the loaded list
LogLoad(p) ==
  /\ alog.lpc[p] = "idle"
  /\ alog.calls[p] < MaxLogCalls
  /\ alog' = [alog EXCEPT !.lpc[p] = "loaded",
                          !.calls[p] = @ + 1,
                          !.buf[p] = Append(load_log(alog.file),
                                            <<p, alog.calls[p] + 1>>)]
  /\ UNCHANGED <<qvars, svars, gvars, wp>>

\* write_text opens the file for writing, which truncates it
LogOpen(p) ==
  /\ alog.lpc[p] = "loaded"
  /\ alog' = [alog EXCEPT !.lpc[p] = "opened", !.file = LogFile(<<>>, FALSE)]
  /\ UNCHANGED <<qvars, svars, gvars, wp>>

\* write_text writes the whole list and closes; log_action returns
LogWrite(p) ==
  /\ alog.lpc[p] = "opened"
  /\ alog' = [alog EXCEPT !.lpc[p] = "idle",
                          !.file = LogFile(alog.buf[p], TRUE),
                          !.buf[p] = <<>>,
                          !.done = @ \cup {<<p, alog.calls[p]>>}]
  /\ UNCHANGED <<qvars, svars, gvars, wp>>

LogNext ==
  \/ \E p \in Loggers : LogLoad(p)
  \/ \E p \in Loggers : LogOpen(p)
  \/ \E p \in Loggers : LogWrite(p)

LogSpec == Init /\ [][LogNext]_vars

Logged(f) == {f.entries[i] : i \in 1..Len(f.entries)}

\* C22: once the log_action calls in progress have returned, every entry
\* written by a completed call is in the log file.
C22_AppendOnly ==
  (\A p \in Loggers : alog.lpc[p] = "idle") => alog.done \subseteq Logged(alog.file)

\* C23: in a dry-run pass the gate calls the registered handler of each task
\* it dispatches, and the call runs the handler's dry-run branch.
C23_DryRunBranch ==
  [][(DRY_RUN /\ gate.pc = "dispatch" /\ gate' # gate
        /\ gate.action \in ACTION_HANDLERS) =>
        (gate'.calls = gate.calls + 1 /\ gate'.branch = "dry_run")]_vars

\* ------------------------------------------------------------ worker passes
\* cloud_agent.run_once and local_agent.run_once, with each ClaimManager call
\* taken as one step.

\* bound on the clock of the pass scenarios (hours)
MaxPassTime == 5

\* the max_age_hours the two run_once pass to abandon_stale
CLOUD_MAX_AGE == 4
LOCAL_MAX_AGE == 2

NEEDS_ACTION_GENERAL == "Needs_Action/general"
APPROVED_EMAIL == "Approved/email"

\* the queues a pass scans, in order: process_domain then process_general;
\* the Approved/<domain> loop then the Approved root loop
WorkQueues(w) ==
  IF w = "cloud_agent" THEN <<NEEDS_ACTION_EMAIL, NEEDS_ACTION_GENERAL>>
  ELSE <<APPROVED_EMAIL, APPROVED_DIR>>

\* every queue some worker's processing loop scans
ScannedQueues == {WorkQueues(w)[i] : w \in Workers, i \in 1..2}

\* whether the loop over q wraps the processing in try/except:
\* process_general does not
guarded(w, q) == ~(w = "cloud_agent" /\ q = NEEDS_ACTION_GENERAL)

\* whether the except branch writes an audit entry after the release: the
\* Approved root loop does not
logs_error(w, q) == ~(w = "local_agent" /\ q = APPROVED_DIR)

\* the arguments of the abandon_stale call that ends a pass
sweep_dir(w) == IF w = "cloud_agent" THEN NEEDS_ACTION_DIR ELSE APPROVED_DIR
sweep_age(w) == IF w = "cloud_agent" THEN CLOUD_MAX_AGE ELSE LOCAL_MAX_AGE

listdir(f, q) == {n \in Names : exists(f, q, n)}

\* ClaimManager.claim run to its return: None unless the source exists, no
\* scratch queue holds the name, and both the move and the audit write succeed
claim(f, w, q, n, logOk) ==
  IF ~exists(f, q, n) \/ is_claimed_by_anyone(f, n) THEN [fs |-> f, ret |-> None]
  ELSE LET m == shutil_move(f, q, n, claim_dir(w), n)
       IN [fs |-> m.fs, ret |-> IF m.ok /\ logOk THEN OWNED ELSE None]

\* ClaimManager.release run to its return
release(f, w, n, d, logOk) ==
  IF ~exists(f, claim_dir(w), n) THEN [fs |-> f, ret |-> None]
  ELSE LET m == shutil_move(f, claim_dir(w), n, d, n)
       IN [fs |-> m.fs, ret |-> IF m.ok /\ logOk THEN OWNED ELSE None]

\* the claimed tasks abandon_stale finds older than maxAge at hour t0
stale_claims(f, w, maxAge, t0) == {t \in Scratch(f, w) : age_hours(f, t, t0) > maxAge}

\* ClaimManager.abandon_stale run to its return: every stale claim is
\* renamed onto d/<name>
abandon_stale(f, w, d, maxAge, t0) ==
  LET old == stale_claims(f, w, maxAge, t0)
  IN [u \in Tasks |->
        IF u \in old THEN [f[u] EXCEPT !.dir = d]
        ELSE IF f[u].dir = d /\ \E t \in old : f[t].name = f[u].name
             THEN [f[u] EXCEPT !.dir = DESTROYED]
        ELSE f[u]]

wq(w) == WorkQueues(w)[wp[w].qi]

\* run_once starts: the first queue is listed
PassBegin(w) ==
  /\ wp[w].phase = "sleep"
  /\ wp' = [wp EXCEPT ![w] = [PassIdle EXCEPT !.phase = "scan", !.qi = 1,
                                !.listing = listdir(fs, WorkQueues(w)[1])]]
  /\ UNCHANGED <<qvars, svars, gvars, alog>>

\* a loop has visited its listing: the next queue is listed, or the
\* processing is over and abandon_stale is next
PassNext(w) ==
  /\ wp[w].phase = "scan"
  /\ wp[w].listing = {}
  /\ wp' = IF wp[w].qi < Len(WorkQueues(w))
           THEN [wp EXCEPT ![w].qi = @ + 1,
                           ![w].listing = listdir(fs, WorkQueues(w)[wp[w].qi + 1])]
           ELSE [wp EXCEPT ![w].phase = "sweep"]
  /\ UNCHANGED <<qvars, svars, gvars, alog>>

\* one iteration up to the try: is_file, claim, continue on None
PassClaim(w, n, logOk) ==
  /\ wp[w].phase = "scan"
  /\ n \in wp[w].listing
  /\ LET r == claim(fs, w, wq(w), n, logOk)
     IN /\ fs' = r.fs
        /\ wp' = LET new == {t \in Tasks : /\ fs[t].dir # claim_dir(w)
                                            /\ r.fs[t].dir = claim_dir(w)}
                 IN IF r.ret = None
                    THEN [wp EXCEPT ![w].listing = @ \ {n}, ![w].took = @ \cup new]
                    ELSE [wp EXCEPT ![w].listing = @ \ {n}, ![w].phase = "work",
                                    ![w].name = n, ![w].took = @ \cup new]
  /\ UNCHANGED <<now, pc, arg, todo, ret, claimedAt, target, svars, gvars, alog>>

\* the processing of the claimed task.  It returns, and the task is released
\* to Done; or it raises, and the except branch (where the loop has one)
\* releases the task to the queue it came from and logs the error; an
\* exception nothing catches ends the process (cloud_loop and local_loop
\* catch nothing).
PassWork(w, outcome, logOk, errLogOk) ==
  /\ wp[w].phase = "work"
  /\ LET n == wp[w].name
         q == wq(w)
         why == [name |-> n, dir |-> q]
     IN CASE outcome = "ok" ->
               /\ errLogOk
               /\ fs' = release(fs, w, n, DONE_DIR, logOk).fs
               /\ wp' = [wp EXCEPT ![w].phase = "scan", ![w].name = "-"]
          [] outcome = "raises" /\ guarded(w, q) ->
               /\ fs' = release(fs, w, n, q, logOk).fs
               /\ errLogOk \/ logs_error(w, q)
               /\ wp' = IF errLogOk
                        THEN [wp EXCEPT ![w].phase = "scan", ![w].name = "-",
                                        ![w].failed = why]
                        ELSE [wp EXCEPT ![w] = [PassIdle EXCEPT !.phase = "dead",
                                                                !.failed = why]]
          [] OTHER ->
               /\ logOk /\ errLogOk
               /\ fs' = fs
               /\ wp' = [wp EXCEPT ![w] = [PassIdle EXCEPT !.phase = "dead",
                                                           !.failed = why]]
  /\ UNCHANGED <<now, pc, arg, todo, ret, claimedAt, target, svars, gvars, alog>>

\* the abandon_stale call that ends the pass
PassSweep(w) ==
  /\ wp[w].phase = "sweep"
  /\ fs' = abandon_stale(fs, w, sweep_dir(w), sweep_age(w), now)
  /\ wp' = [wp EXCEPT ![w] = [PassIdle EXCEPT !.failed = wp[w].failed]]
  /\ UNCHANGED <<now, pc, arg, todo, ret, claimedAt, target, svars, gvars, alog>>

\* the worker process is killed in the middle of a pass (Orchestrator.stop,
\* or the machine goes down)
PassCrash(w) ==
  /\ wp[w].phase \in {"scan", "work", "sweep"}
  /\ wp' = [wp EXCEPT ![w] = [PassIdle EXCEPT !.phase = "dead"]]
  /\ UNCHANGED <<qvars, svars, gvars, alog>>

\* the next instance of the worker starts
PassRestart(w) ==
  /\ wp[w].phase = "dead"
  /\ wp' = [wp EXCEPT ![w] = PassIdle]
  /\ UNCHANGED <<qvars, svars, gvars, alog>>

PassTick ==
  /\ now < MaxPassTime
  /\ now' = now + 1
  /\ UNCHANGED <<fs, pc, arg, todo, ret, claimedAt, target, svars, gvars, xvars>>

\* the stores the pass scenarios start from: tasks waiting in the queues the
\* two workers scan
WorkerFiles ==
  {f \in [Tasks -> {NoFile} \cup
                   [dir : ScannedQueues, name : Names, mtime : {0}]] :
     \A t, u \in Tasks :
        (t # u /\ f[t] # NoFile /\ f[u] # NoFile) =>
           (f[t].dir # f[u].dir \/ f[t].name # f[u].name)}

WorkerInit ==
  /\ fs \in WorkerFiles
  /\ now = 0
  /\ pc = [w \in Workers |-> "idle"]
  /\ arg = [w \in Workers |-> NoArg]
  /\ todo = [w \in Workers |-> {}]
  /\ ret = [w \in Workers |-> PENDING]
  /\ claimedAt = [t \in Tasks |-> 0]
  /\ target = NoTarget
  /\ GateIdle
  /\ SupIdle

WorkerNext ==
  \/ \E w \in Workers : PassBegin(w)
  \/ \E w \in Workers : PassNext(w)
  \/ \E w \in Workers, n \in Names, logOk \in BOOLEAN : PassClaim(w, n, logOk)
  \/ \E w \in Workers, o \in {"ok", "raises"}, logOk, errLogOk \in BOOLEAN :
        PassWork(w, o, logOk, errLogOk)
  \/ \E w \in Workers : PassSweep(w)
  \/ \E w \in Workers : PassCrash(w)
  \/ \E w \in Workers : PassRestart(w)
  \/ PassTick

WorkerSpec == WorkerInit /\ [][WorkerNext]_vars

\* C24: when the processing of a claimed task raises, the task is back in
\* the queue it was claimed from and out of the worker's scratch queue.
C24_ErrorPath ==
  [][\A w \in Workers :
       (wp[w].phase = "work" /\ wp'[w].failed # wp[w].failed
          /\ wp'[w].failed # NoFailure) =>
          /\ exists(fs', wp'[w].failed.dir, wp'[w].failed.name)
          /\ ~exists(fs', claim_dir(w), wp'[w].failed.name)]_vars

\* C25: abandon_stale sweeps a claim a dead worker left behind into a queue
\* that some worker's processing loop scans.
C25_SweptIntoScannedQueue ==
  [][\A w \in Workers, t \in Tasks :
       (wp[w].phase = "sweep" /\ fs[t].dir = claim_dir(w)
          /\ fs'[t].dir # claim_dir(w)) =>
          fs'[t].dir \in ScannedQueues]_vars

\* C26: one iteration of abandon_stale moves the claim exactly when its age
\* is greater than maxAge, counts it exactly when it moved it, and leaves
\* every task outside the fallback queue where it was.
C26_AbandonExact ==
  [][\A w \in Workers, t \in Tasks :
       (/\ pc[w] = "abandon"
        /\ fs[t].dir = claim_dir(w)
        /\ fs[t].name \in todo[w] /\ fs[t].name \notin todo'[w])
       => LET moved == fs'[t].dir # claim_dir(w)
          IN /\ moved <=> age_hours(fs, t, arg[w].t0) > arg[w].age
             /\ moved => fs'[t].dir = arg[w].dir
             /\ ret'[w] = ret[w] + (IF moved THEN 1 ELSE 0)
             /\ \A u \in Tasks :
                  (u # t /\ fs[u].dir # arg[w].dir) => fs'[u] = fs[u]]_vars

\* C27: the archive move of check_approved leaves every entry Done already
\* holds in place.
C27_ArchiveKeepsDone ==
  [][(gate.pc = "move" /\ gate' # gate) =>
        \A t \in Tasks : fs[t].dir = DONE_DIR => fs'[t] = fs[t]]_vars

\* ------------------------------------------------------------ gate liveness
\* The gate loop alone with the reviewer: every handler call returns True
\* and every audit write succeeds, so the loop keeps running.

\* environment: the reviewer moves a proposal into the Approved/email
\* sub-queue of the persisted layout
ApproveDomain(t) ==
  /\ fs[t].dir = PENDING_APPROVAL_DIR
  /\ ~exists(fs, APPROVED_EMAIL, fs[t].name)
  /\ fs' = rename(fs, t, APPROVED_EMAIL, fs[t].name)
  /\ UNCHANGED <<now, pc, arg, todo, ret, claimedAt, target, svars, gvars, xvars>>

\* approval_loop: run_once, sleep, again
GateLoop ==
  \/ GateList
  \/ GateIter
  \/ GateRead
  \/ GateDispatch("true", "ok")
  \/ GateArchive
  \/ GateMove("ok")
  \/ GateCheckPending

GateLiveNext ==
  \/ GateLoop
  \/ \E t \in Tasks : Approve(t)
  \/ \E t \in Tasks : ApproveDomain(t)

GateLiveSpec == GateInit /\ [][GateLiveNext]_vars /\ WF_vars(GateLoop)

\* C28: a task with a registered action that sits in the Approved root or in
\* an Approved/<domain>/ sub-queue is eventually in Done.
C28_GateLiveness ==
  \A t \in Tasks :
     (fs[t].dir \in {APPROVED_DIR, APPROVED_EMAIL}
        /\ extract_action_type(content[t]) \in ACTION_HANDLERS)
     ~> (fs[t].dir = DONE_DIR)

\* C29: a refused claim changes nothing.  While a scratch queue held an
\* entry of the target's name when the calls began, no call takes the task
\* and no queue changes; a call that finds the source path gone returns None
\* and no queue changes.
C29_RefusedChangesNothing ==
  [][/\ target.claimed => (fs' = fs /\ \A w \in Workers : ret'[w] # OWNED)
     /\ \A w \in Workers :
          (/\ pc[w] = "idle" /\ ret'[w] # ret[w]
           /\ ~exists(fs, target.dir, target.name))
          => (ret'[w] = None /\ pc'[w] = "idle" /\ fs' = fs)
     /\ \A w \in Workers :
          (pc[w] = "scan" /\ pc'[w] = "idle") => (ret'[w] = None /\ fs' = fs)]_vars

\* both calls were refused by the scan: the name was held from the start
C29_Witness ==
  /\ target.claimed
  /\ \A w \in Workers : pc[w] = "idle" /\ ret[w] = None
  /\ exists(fs, target.dir, target.name)

\* C30: the health-check visit of a record that is idle, missing or
\* abandoned, or running with a live child, leaves its state, restart
\* counter and process handle as they were, and spawns and starts nothing.
C30_HealthCheckFrame ==
  [][\A a \in Agents :
       (/\ Visited(a)
        /\ \/ agents[a].status \in {"idle", "missing", "abandoned"}
           \/ agents[a].status = "running" /\ is_alive(agents[a]))
       => /\ agents'[a].status = agents[a].status
          /\ agents'[a].restarts = agents[a].restarts
          /\ agents'[a].process = agents[a].process
          /\ agents'[a].spawns = agents[a].spawns
          /\ agents'[a].starts = agents[a].starts]_vars

\* two health checks have passed over a record that is still running its
\* first child
C30_Witness ==
  /\ checks >= 2
  /\ \E a \in Agents :
       /\ agents[a].status = "running"
       /\ is_alive(agents[a])
       /\ agents[a].seenAlive
       /\ agents[a].restarts = 0
       /\ agents[a].spawns = 1

\* ------------------------------------------------------- the gate by itself
\* The gate process and the reviewer, with every outcome of the handlers and
\* of the audit writes; no other process touches the Approved root.
GateSoloNext ==
  \/ GateList
  \/ GateIter
  \/ GateRead
  \/ \E h \in {"true", "false", "raises"}, l \in LogOutcomes : GateDispatch(h, l)
  \/ GateArchive
  \/ \E l \in LogOutcomes : GateMove(l)
  \/ GateCheckPending
  \/ \E t \in Tasks : Approve(t)

GateSoloSpec == GateInit /\ [][GateSoloNext]_vars

\* position of a name in the lexicographic order
rank(n) == CHOOSE i \in 1..Len(NameOrder) : NameOrder[i] = n

\* C31: within a pass the tasks are dispatched in ascending order of their
\* names: when a task's handler is about to be invoked, the task the pass
\* finished last (archive move or failure record) has a smaller name, and
\* every task still to come has a greater one.
C31_LexicographicOrder ==
  gate.pc \in {"read", "dispatch", "archive", "move"} =>
     /\ gate.prev # "-" => rank(gate.prev) < rank(gate.name)
     /\ \A i \in 1..Len(gate.listing) : rank(gate.name) < rank(gate.listing[i])

\* the second task of a pass is in hand after the first was finished
C31_Witness ==
  /\ gate.pc = "dispatch"
  /\ gate.prev = "a.md"
  /\ gate.name = "b.md"

\* C32: the call of claim returns a path exactly when it moved the task into
\* the caller's scratch queue.
C32_TruthfulResult ==
  [][\A w \in Workers :
       (pc[w] = "move" /\ pc'[w] = "idle") =>
          (ret'[w] = OWNED <=>
             \E t \in Tasks : fs[t].dir # claim_dir(w) /\ fs'[t].dir = claim_dir(w))]_vars

\* ------------------------------------------- the gate and the local worker
\* AGENTS_LOCAL launches hitl_approval.py and local_agent.py together: the
\* gate's pass and the worker's pass interleave on the Approved root.
ApprovalNext ==
  \/ GateSoloNext
  \/ PassBegin("local_agent")
  \/ PassNext("local_agent")
  \/ \E n \in Names, logOk \in BOOLEAN : PassClaim("local_agent", n, logOk)
  \/ \E o \in {"ok", "raises"}, logOk, errLogOk \in BOOLEAN :
        PassWork("local_agent", o, logOk, errLogOk)
  \/ PassSweep("local_agent")

ApprovalSpec == GateInit /\ [][ApprovalNext]_vars

\* C33: an approved action is executed at most once: the worker does not
\* execute a task for which the gate has invoked the handler.
C33_AtMostOnce ==
  [][\A t \in Tasks :
       (/\ ~DRY_RUN
        /\ wp["local_agent"].phase = "work"
        /\ wp'["local_agent"].phase = "scan"
        /\ fs[t].dir = claim_dir("local_agent")
        /\ fs[t].name = wp["local_agent"].name
        /\ fs'[t].dir = DONE_DIR)
       => t \notin gate.ran]_vars

\* C34: no step lowers a record's restart counter, whether or not health
\* checks found the worker alive in between; a crash found when the counter
\* is at MAX_RESTARTS (the crash number MAX_RESTARTS + 1 in total) abandons
\* the record, and a crash found below it does not.
C34_CounterNeverReset ==
  [][\A a \in Agents :
       /\ agents'[a].restarts >= agents[a].restarts
       /\ RestartCalled(a) =>
            /\ agents'[a].restarts =
                  IF agents[a].restarts < MAX_RESTARTS
                  THEN agents[a].restarts + 1 ELSE MAX_RESTARTS
            /\ agents'[a].status = "abandoned" <=>
                  agents[a].restarts = MAX_RESTARTS]_vars

\* a record abandoned although a health check found it alive between crashes
C34_Witness ==
  \E a \in Agents :
     /\ agents[a].status = "abandoned"
     /\ agents[a].seenAlive
     /\ agents[a].restarts = MAX_RESTARTS

\* C35: when the supervisor process has exited, no child it spawned is
\* alive, whenever the shutdown signal arrived.
C35_NoOrphans ==
  opc = "exited" => \A a \in Agents : ~is_alive(agents[a])

\* C36: when a pass of check_approved returns, executed + failed + dry_run
\* is the number of tasks the pass listed, the tasks it moved to Done number
\* executed + dry_run, and only the counter of the current mode is used.
C36_SummaryAccounting ==
  gate.pc = "count" =>
     /\ gate.summary.executed + gate.summary.failed + gate.summary.dry_run
           = gate.listed
     /\ gate.moved = gate.summary.executed + gate.summary.dry_run
     /\ DRY_RUN => gate.summary.executed = 0
     /\ ~DRY_RUN => gate.summary.dry_run = 0

\* C37: when a run_once pass completes, no task the pass claimed is left in
\* the worker's scratch queue.
C37_NoClaimBetweenPasses ==
  [][\A w \in Workers :
       (wp[w].phase = "sweep" /\ wp'[w].phase = "sleep") =>
          \A t \in wp[w].took : fs'[t].dir # claim_dir(w)]_vars
====
